---- MODULE Spec2Model ----
(***************************************************************************)
(* A model of the finance_etl monthly close pipeline:                      *)
(*   quality.py   - the five pandera schemas and validate_or_collect       *)
(*   transform.py - fx_to_base, add_fx_amount_base, to_fact_transactions,  *)
(*                  kpi_monthly                                            *)
(*   pipeline.py  - _month_window, _tag_severity, run_month                *)
(*   cli.py       - the Typer application and its commands                 *)
(*                                                                         *)
(* Numbers.  The code computes in binary floating point; the model uses    *)
(* exact decimal fixed point.  Money and unit costs are integers counting  *)
(* thousandths (1000 = 1.00), FX rates and quantities are integers         *)
(* counting hundredths (110 = 1.10).  round(x, 2) is numpy's rounding:     *)
(* to the nearest hundredth, an exact tie going to the even hundredth.     *)
(*                                                                         *)
(* Timestamps are <<year, month, day, minute of day>>; a calendar date is  *)
(* <<year, month, day>>.                                                   *)
(***************************************************************************)
EXTENDS Integers, Sequences, FiniteSets, TLC

VARIABLES
    pc,             \* position of the run inside run_month
    fail_on,        \* the fail_on argument, as given (a sequence of characters)
    month,          \* the month argument, "YYYY-MM"
    coa,            \* reference/chart_of_accounts.csv: rows (account_code, account_type)
    sales,          \* raw/sales.csv
    expenses,       \* raw/expenses.csv
    payroll,        \* raw/payroll.csv
    inventory,      \* raw/inventory_movements.csv
    fx_rates,       \* raw/fx_rates.csv
    issues,         \* run_month's list of failure-case tables
    dq_exceptions,  \* the tagged exception rows (pipeline.py 103-104), or None
    v_sales,        \* validated frames, or None
    v_exp,
    v_pay,
    v_inv,
    v_fx,
    fx,             \* the lookup returned by fx_to_base
    fact,           \* the ledger returned by to_fact_transactions
    kpi,            \* the table returned by kpi_monthly
    files,          \* the curated directory: file name -> content
    error,          \* the exception that ended the run: its kind, where it was
                    \* raised and the pairs it lists; or NoError
    argv,           \* the command line: program name, command, options; <<>>
                    \* when run_month is called directly
    exit_code,      \* the exit status of the process, or None while it runs
    stdout          \* the lines written to the console, each a sequence of words

vars == <<pc, fail_on, month, coa, sales, expenses, payroll, inventory, fx_rates,
          issues, dq_exceptions, v_sales, v_exp, v_pay, v_inv, v_fx, fx, fact, kpi, files, error,
          argv, exit_code, stdout>>

-----------------------------------------------------------------------------
(* Settings (config.py)                                                    *)

base_currency == "USD"

allowed_currencies == {"USD", "TZS", "EUR"}

-----------------------------------------------------------------------------
(* Generic helpers                                                         *)

Range(s) == {s[i] : i \in 1..Len(s)}

RECURSIVE SumSeq(_)
SumSeq(s) == IF s = <<>> THEN 0 ELSE Head(s) + SumSeq(Tail(s))

RECURSIVE Flatten(_)
Flatten(ss) == IF ss = <<>> THEN <<>> ELSE Head(ss) \o Flatten(Tail(ss))

\* Lexicographic order on tuples of integers of the same length.
RECURSIVE TupleLess(_, _)
TupleLess(a, b) ==
    IF a = <<>> THEN FALSE
    ELSE IF Head(a) # Head(b) THEN Head(a) < Head(b)
    ELSE TupleLess(Tail(a), Tail(b))

\* Stable ascending sort by several columns (DataFrame.sort_values): the
\* permutation that orders the integer-tuple keys, ties kept in input order.
RECURSIVE InsertSorted(_, _, _)
InsertSorted(i, perm, keys) ==
    IF perm = <<>> THEN <<i>>
    ELSE IF TupleLess(keys[i], keys[Head(perm)]) THEN <<i>> \o perm
    ELSE <<Head(perm)>> \o InsertSorted(i, Tail(perm), keys)

RECURSIVE SortPerm(_, _)
SortPerm(n, keys) ==
    IF n = 0 THEN <<>> ELSE InsertSorted(n, SortPerm(n - 1, keys), keys)

SortByKeys(s, keys) ==
    LET perm == SortPerm(Len(s), keys)
    IN  [i \in 1..Len(s) |-> s[perm[i]]]

\* Round n/d to the nearest integer, an exact tie to the even one (numpy's rint).
RoundHalfEven(n, d) ==
    LET q == n \div d
        r == n % d
    IN  IF 2 * r < d THEN q
        ELSE IF 2 * r > d THEN q + 1
        ELSE IF q % 2 = 0 THEN q ELSE q + 1

\* Series.round(2) of a value counted in hundred-thousandths (the product of
\* thousandths and hundredths); the result counts thousandths.
RoundProduct2(x) == 10 * RoundHalfEven(x, 1000)

\* Series.round(2) of a value counted in thousandths.
Round2(x) == 10 * RoundHalfEven(x, 10)

-----------------------------------------------------------------------------
(* Dates                                                                   *)

DateOf(ts) == <<ts[1], ts[2], ts[3]>>

IsLeap(y) == (y % 4 = 0 /\ y % 100 # 0) \/ y % 400 = 0

DaysIn(y, m) ==
    IF m = 2 THEN (IF IsLeap(y) THEN 29 ELSE 28)
    ELSE IF m \in {4, 6, 9, 11} THEN 30 ELSE 31

\* The (year, month) a "YYYY-MM" string denotes (pd.to_datetime(month + "-01")).
MonthYM(m) ==
    CASE m = "2024-02" -> <<2024, 2>>
      [] m = "2025-02" -> <<2025, 2>>
      [] m = "2025-11" -> <<2025, 11>>
      [] m = "2025-12" -> <<2025, 12>>
      [] m = "2026-01" -> <<2026, 1>>

\* str(period) of a (year, month): dt.to_period("M").astype(str).
MonthStr(y, m) ==
    CASE <<y, m>> = <<2024, 2>> -> "2024-02"
      [] <<y, m>> = <<2025, 2>> -> "2025-02"
      [] <<y, m>> = <<2025, 11>> -> "2025-11"
      [] <<y, m>> = <<2025, 12>> -> "2025-12"
      [] <<y, m>> = <<2026, 1>> -> "2026-01"

\* astype(str) of a midnight timestamp.
DateStr(ts) ==
    CASE DateOf(ts) = <<2025, 11, 30>> -> "2025-11-30"
      [] DateOf(ts) = <<2025, 12, 1>> -> "2025-12-01"
      [] DateOf(ts) = <<2025, 12, 5>> -> "2025-12-05"
      [] DateOf(ts) = <<2025, 12, 31>> -> "2025-12-31"
      [] DateOf(ts) = <<2026, 1, 1>> -> "2026-01-01"

-----------------------------------------------------------------------------
(* Strings.  TLC cannot compare strings, so the order Python gives the     *)
(* strings that occur as sort keys is tabulated: StrOrder lists them in    *)
(* ascending order.                                                        *)

StrOrder ==
    <<"BILL-0001", "BILL-0002", "EMP-001_2024-02", "EMP-001_2025-02",
      "EMP-001_2025-11", "EMP-001_2025-12", "EMP-001_2026-01",
      "EMP-002_2024-02", "EMP-002_2025-02", "EMP-002_2025-11",
      "EMP-002_2025-12", "EMP-002_2026-01", "ERROR", "HONEY-DRUM_2025-11-30",
      "HONEY-DRUM_2025-12-01", "HONEY-DRUM_2025-12-05",
      "HONEY-DRUM_2025-12-31", "HONEY-DRUM_2026-01-01", "INV-0001",
      "INV-0002", "TLM", "UPE", "WARN", "WAX-BLOCK_2025-11-30",
      "WAX-BLOCK_2025-12-01", "WAX-BLOCK_2025-12-05", "WAX-BLOCK_2025-12-31",
      "WAX-BLOCK_2026-01-01", "expenses", "fx_rates", "inventory",
      "inventory_movements", "payroll", "sales">>

Rank(s) == CHOOSE i \in 1..Len(StrOrder) : StrOrder[i] = s

\* An Optional value: None, or Some(x).
None == <<>>

Some(x) == <<x>>

\* The characters of the strings whose text the code inspects: pandera's names
\* of the checks, the patterns of _tag_severity, and fail_on arguments.
Chars(s) ==
    CASE s = "isin(['USD', 'TZS', 'EUR'])" ->
          <<"i", "s", "i", "n", "(", "[", "'", "U", "S", "D", "'", ",", " ",
          "'", "T", "Z", "S", "'", ",", " ", "'", "E", "U", "R", "'", "]",
          ")">>
      [] s = "isin(['USD'])" ->
          <<"i", "s", "i", "n", "(", "[", "'", "U", "S", "D", "'", "]", ")">>
      [] s = "isin(['receipt', 'issue', 'adjustment'])" ->
          <<"i", "s", "i", "n", "(", "[", "'", "r", "e", "c", "e", "i", "p",
          "t", "'", ",", " ", "'", "i", "s", "s", "u", "e", "'", ",", " ",
          "'", "a", "d", "j", "u", "s", "t", "m", "e", "n", "t", "'", "]",
          ")">>
      [] s = "greater_than(0)" ->
          <<"g", "r", "e", "a", "t", "e", "r", "_", "t", "h", "a", "n", "(",
          "0", ")">>
      [] s = "greater_than_or_equal_to(0)" ->
          <<"g", "r", "e", "a", "t", "e", "r", "_", "t", "h", "a", "n", "_",
          "o", "r", "_", "e", "q", "u", "a", "l", "_", "t", "o", "(", "0",
          ")">>
      [] s = "not_equal_to(0)" ->
          <<"n", "o", "t", "_", "e", "q", "u", "a", "l", "_", "t", "o", "(",
          "0", ")">>
      [] s = "not_nullable" ->
          <<"n", "o", "t", "_", "n", "u", "l", "l", "a", "b", "l", "e">>
      [] s = "Duplicates found for keys ['entity', 'invoice_id'] in sales" ->
          <<"D", "u", "p", "l", "i", "c", "a", "t", "e", "s", " ", "f", "o",
          "u", "n", "d", " ", "f", "o", "r", " ", "k", "e", "y", "s", " ",
          "[", "'", "e", "n", "t", "i", "t", "y", "'", ",", " ", "'", "i",
          "n", "v", "o", "i", "c", "e", "_", "i", "d", "'", "]", " ", "i",
          "n", " ", "s", "a", "l", "e", "s">>
      [] s = "Duplicates found for keys ['entity', 'bill_id'] in expenses" ->
          <<"D", "u", "p", "l", "i", "c", "a", "t", "e", "s", " ", "f", "o",
          "u", "n", "d", " ", "f", "o", "r", " ", "k", "e", "y", "s", " ",
          "[", "'", "e", "n", "t", "i", "t", "y", "'", ",", " ", "'", "b",
          "i", "l", "l", "_", "i", "d", "'", "]", " ", "i", "n", " ", "e",
          "x", "p", "e", "n", "s", "e", "s">>
      [] s = "Duplicates found for keys ['date', 'from_currency', 'to_currency'] in fx_rates" ->
          <<"D", "u", "p", "l", "i", "c", "a", "t", "e", "s", " ", "f", "o",
          "u", "n", "d", " ", "f", "o", "r", " ", "k", "e", "y", "s", " ",
          "[", "'", "d", "a", "t", "e", "'", ",", " ", "'", "f", "r", "o",
          "m", "_", "c", "u", "r", "r", "e", "n", "c", "y", "'", ",", " ",
          "'", "t", "o", "_", "c", "u", "r", "r", "e", "n", "c", "y", "'",
          "]", " ", "i", "n", " ", "f", "x", "_", "r", "a", "t", "e", "s">>
      [] s = "Payroll identity gross - deductions = net violated" ->
          <<"P", "a", "y", "r", "o", "l", "l", " ", "i", "d", "e", "n", "t",
          "i", "t", "y", " ", "g", "r", "o", "s", "s", " ", "-", " ", "d",
          "e", "d", "u", "c", "t", "i", "o", "n", "s", " ", "=", " ", "n",
          "e", "t", " ", "v", "i", "o", "l", "a", "t", "e", "d">>
      [] s = "dtype" ->
          <<"d", "t", "y", "p", "e">>
      [] s = "required" ->
          <<"r", "e", "q", "u", "i", "r", "e", "d">>
      [] s = "Duplicates found" ->
          <<"D", "u", "p", "l", "i", "c", "a", "t", "e", "s", " ", "f", "o",
          "u", "n", "d">>
      [] s = "Payroll identity" ->
          <<"P", "a", "y", "r", "o", "l", "l", " ", "i", "d", "e", "n", "t",
          "i", "t", "y">>
      [] s = "ERROR" ->
          <<"E", "R", "R", "O", "R">>
      [] s = "WARN" ->
          <<"W", "A", "R", "N">>
      [] s = "NEVER" ->
          <<"N", "E", "V", "E", "R">>
      [] s = " warn" ->
          <<" ", "w", "a", "r", "n">>
      [] s = "error " ->
          <<"e", "r", "r", "o", "r", " ">>
      [] s = "never" ->
          <<"n", "e", "v", "e", "r">>
      [] s = "BOGUS" ->
          <<"B", "O", "G", "U", "S">>

LowerLetters ==
    <<"a", "b", "c", "d", "e", "f", "g", "h", "i", "j", "k", "l", "m",
      "n", "o", "p", "q", "r", "s", "t", "u", "v", "w", "x", "y", "z">>

UpperLetters ==
    <<"A", "B", "C", "D", "E", "F", "G", "H", "I", "J", "K", "L", "M",
      "N", "O", "P", "Q", "R", "S", "T", "U", "V", "W", "X", "Y", "Z">>

\* str.upper and str.lower, on a sequence of characters
Upper(cs) ==
    [i \in 1..Len(cs) |->
        IF \E k \in 1..26 : LowerLetters[k] = cs[i]
        THEN UpperLetters[CHOOSE k \in 1..26 : LowerLetters[k] = cs[i]]
        ELSE cs[i]]

Lower(cs) ==
    [i \in 1..Len(cs) |->
        IF \E k \in 1..26 : UpperLetters[k] = cs[i]
        THEN LowerLetters[CHOOSE k \in 1..26 : UpperLetters[k] = cs[i]]
        ELSE cs[i]]

Whitespace == {" ", "\t"}

\* str.strip: leading and trailing whitespace removed
Strip(cs) ==
    LET keep == {i \in 1..Len(cs) : cs[i] \notin Whitespace}
    IN  IF keep = {} THEN <<>>
        ELSE SubSeq(cs, CHOOSE i \in keep : \A j \in keep : i <= j,
                        CHOOSE i \in keep : \A j \in keep : j <= i)

\* pat occurs in cs
Contains(cs, pat) ==
    \E k \in 0..(Len(cs) - Len(pat)) : \A j \in 1..Len(pat) : cs[k + j] = pat[j]

-----------------------------------------------------------------------------
(* transform.py                                                            *)

\* Series.dt.date
DtDate(ts) == DateOf(ts)

\* out["rate"] = 1.0
RateOne == 100

\* fx_to_base: dates cut to the calendar day, rows to the base currency kept.
fx_to_base(fx_df, base) ==
    SelectSeq([i \in 1..Len(fx_df) |-> [fx_df[i] EXCEPT !.date = DtDate(fx_df[i].date)]],
              LAMBDA f : f.to_currency = base)

\* A faulty variant: the join is on the currency alone, so a rate of another date is taken.
FxMatches_AnyDate(row, fx_lookup) ==
    LET hit == SelectSeq(fx_lookup, LAMBDA f : f.from_currency = row.currency)
    IN  [i \in 1..Len(hit) |-> hit[i].rate]

\* The rates DataFrame.merge(how="left") pairs with one row of the left frame:
\* those of the lookup rows with the row's (date_key, currency), in lookup order.
FxMatches(row, fx_lookup) ==
    LET hit == SelectSeq(fx_lookup,
                   LAMBDA f : f.date = DtDate(row.date) /\ f.from_currency = row.currency)
    IN  [i \in 1..Len(hit) |-> hit[i].rate]

\* The left merge: one output row per matching lookup row, and one row with
\* rate_fx = NaN (the empty set here) for a left row that matches none.
MergeLeft(df, fx_lookup) ==
    Flatten([i \in 1..Len(df) |->
        LET m == FxMatches(df[i], fx_lookup)
        IN  IF m = <<>> THEN << [row |-> df[i], rate_fx |-> {}] >>
            ELSE [j \in 1..Len(m) |-> [row |-> df[i], rate_fx |-> {m[j]}]]])

\* A faulty variant: the product is cut to 2 decimals, not rounded.
AmountBase_Truncated(amount, rate) == 10 * ((amount * rate) \div 1000)

\* amount * rate, rounded to 2 decimals
AmountBase(amount, rate) == RoundProduct2(amount * rate)

\* add_fx_amount_base.  The result is [status, rows, missing]:
\*   "ok"            rows carry rate and amount_base
\*   "MissingFx"     ValueError("Missing FX rates for: ..."), missing = the pairs
\*   "IndexingError" the boolean mask, indexed like df, no longer aligns with the
\*                   merged frame (the merge added rows): out.loc[mask, ...] raises
add_fx_amount_base(df, fx_df, base) ==
    LET n == Len(df)
        mask == [i \in 1..n |-> df[i].currency # base]
        any == \E i \in 1..n : mask[i]
        fx_lookup == [i \in 1..Len(fx_df) |->
                        [date |-> DtDate(fx_df[i].date),
                         from_currency |-> fx_df[i].from_currency,
                         rate |-> fx_df[i].rate]]
        merged == MergeLeft(df, fx_lookup)
        rate == [i \in 1..n |->
                    IF any /\ mask[i] THEN merged[i].rate_fx ELSE {RateOne}]
        isna == {i \in 1..n : rate[i] = {}}
    IN  IF any /\ Len(merged) # n
        THEN [status |-> "IndexingError", rows |-> <<>>, missing |-> {}]
        ELSE IF isna # {}
        THEN [status |-> "MissingFx", rows |-> <<>>,
              missing |-> {<<DtDate(df[i].date), df[i].currency>> : i \in isna}]
        ELSE [status |-> "ok", missing |-> {},
              rows |-> [i \in 1..n |->
                  LET r == CHOOSE x \in rate[i] : TRUE
                  IN  [date |-> df[i].date, entity |-> df[i].entity,
                       source |-> df[i].source, document_id |-> df[i].document_id,
                       account_code |-> df[i].account_code,
                       currency |-> df[i].currency, amount |-> df[i].amount,
                       description |-> df[i].description,
                       rate |-> r, amount_base |-> AmountBase(df[i].amount, r)]]]

\* The four source shapes mapped to the ledger's columns.
SalesShape(s) ==
    [i \in 1..Len(s) |->
        [date |-> s[i].date, entity |-> s[i].entity, source |-> "sales",
         document_id |-> s[i].invoice_id, account_code |-> s[i].account_code,
         currency |-> s[i].currency, amount |-> s[i].amount,
         description |-> s[i].description]]

\* A faulty variant: the expense amount is not negated.
ExpensesShape_NotNegated(e) ==
    [i \in 1..Len(e) |->
        [date |-> e[i].date, entity |-> e[i].entity, source |-> "expenses",
         document_id |-> e[i].bill_id, account_code |-> e[i].account_code,
         currency |-> e[i].currency, amount |-> e[i].amount,
         description |-> e[i].description]]

ExpensesShape(e) ==
    [i \in 1..Len(e) |->
        [date |-> e[i].date, entity |-> e[i].entity, source |-> "expenses",
         document_id |-> e[i].bill_id, account_code |-> e[i].account_code,
         currency |-> e[i].currency, amount |-> 0 - e[i].amount,
         description |-> e[i].description]]

\* A faulty variant: the first day of the month, without the step to its end.
PayrollDate_FirstDay(m) ==
    LET ym == MonthYM(m) IN <<ym[1], ym[2], 1, 0>>

\* pd.to_datetime(month + "-01") + MonthEnd(0)
PayrollDate(m) ==
    LET ym == MonthYM(m) IN <<ym[1], ym[2], DaysIn(ym[1], ym[2]), 0>>

PayrollShape(p) ==
    [i \in 1..Len(p) |->
        [date |-> PayrollDate(p[i].month), entity |-> p[i].entity,
         source |-> "payroll",
         document_id |-> p[i].employee_id \o "_" \o p[i].month,
         account_code |-> "61000001", currency |-> p[i].currency,
         amount |-> 0 - p[i].net, description |-> "Payroll net"]]

InventoryAccount(movement_type) ==
    CASE movement_type = "issue" -> "50000001"
      [] movement_type = "receipt" -> "10000001"
      [] movement_type = "adjustment" -> "10000001"

InventoryAmount(r) ==
    LET a == RoundProduct2(r.qty * r.unit_cost)
    IN  IF r.movement_type = "issue" THEN 0 - a ELSE a

InventoryShape(inv) ==
    [i \in 1..Len(inv) |->
        [date |-> inv[i].date, entity |-> inv[i].entity, source |-> "inventory",
         document_id |-> inv[i].sku \o "_" \o DateStr(inv[i].date),
         account_code |-> InventoryAccount(inv[i].movement_type),
         currency |-> inv[i].currency, amount |-> InventoryAmount(inv[i]),
         description |-> inv[i].movement_type \o " " \o inv[i].sku]]

\* The key of sort_values(["date", "entity", "source", "document_id"]).
LedgerKey(r) ==
    <<r.date[1], r.date[2], r.date[3], r.date[4],
      Rank(r.entity), Rank(r.source), Rank(r.document_id)>>

TxnId(r) == r.entity \o "|" \o r.source \o "|" \o r.document_id

\* to_fact_transactions.  The result is [status, rows, missing] as for
\* add_fx_amount_base, whose error it lets through.
to_fact_transactions(s, e, p, inv, fx_df, base) ==
    LET all == SalesShape(s) \o ExpensesShape(e) \o PayrollShape(p) \o InventoryShape(inv)
        conv == add_fx_amount_base(all, fx_df, base)
        sorted == SortByKeys(conv.rows, [i \in 1..Len(conv.rows) |-> LedgerKey(conv.rows[i])])
    IN  IF conv.status # "ok" THEN conv
        ELSE [conv EXCEPT !.rows =
                [i \in 1..Len(sorted) |->
                    [txn_id |-> TxnId(sorted[i]), date |-> sorted[i].date,
                     entity |-> sorted[i].entity, source |-> sorted[i].source,
                     document_id |-> sorted[i].document_id,
                     account_code |-> sorted[i].account_code,
                     currency |-> sorted[i].currency, amount |-> sorted[i].amount,
                     rate |-> sorted[i].rate, amount_base |-> sorted[i].amount_base,
                     description |-> sorted[i].description]]]

\* build_dim_accounts: a copy.
build_dim_accounts(chart_of_accounts) == chart_of_accounts

\* The account_type cells fact.merge(dim_accounts, on="account_code", how="left")
\* gives one ledger row: one per chart row with its code, or one NaN.
AccountTypes(code, dim_accounts) ==
    LET hit == SelectSeq(dim_accounts, LAMBDA a : a.account_code = code)
    IN  IF hit = <<>> THEN <<"NaN">> ELSE [j \in 1..Len(hit) |-> hit[j].account_type]

\* dt.to_period("M").astype(str)
MonthOf(ts) == MonthStr(ts[1], ts[2])

\* kpi_monthly's df: the ledger joined to account_type, with its month.
KpiJoined(ledger, dim_accounts) ==
    Flatten([i \in 1..Len(ledger) |->
        LET ts == AccountTypes(ledger[i].account_code, dim_accounts)
        IN  [j \in 1..Len(ts) |->
                [entity |-> ledger[i].entity, month |-> MonthOf(ledger[i].date),
                 account_type |-> ts[j], amount_base |-> ledger[i].amount_base]]])

\* groupby(["entity", "month", "account_type"], dropna=False).sum(): one row a group.
KpiGroupSum(df, entity, m, account_type) ==
    LET g == SelectSeq(df, LAMBDA r : r.entity = entity /\ r.month = m
                                      /\ r.account_type = account_type)
    IN  SumSeq([i \in 1..Len(g) |-> g[i].amount_base])

\* pivot_table(index=[entity, month], columns=account_type, fill_value=0) groups
\* again with its default dropna=True: the rows whose account_type is NaN are
\* left out, and with them an index entry or a column that has no other row.
PivotRows(df) == SelectSeq(df, LAMBDA r : r.account_type # "NaN")

KpiKey(r) == <<MonthYM(r.month)[1], MonthYM(r.month)[2]>>

\* A faulty variant: COGS is subtracted.
GrossProfit_Subtracting(revenue, cogs) == Round2(revenue - cogs)

\* (wide["Revenue"] + wide["COGS"]).round(2)
GrossProfit(revenue, cogs) == Round2(revenue + cogs)

\* (wide["gross_profit"] + wide["Expense"]).round(2)
OperatingProfit(gross_profit, expense) == Round2(gross_profit + expense)

kpi_monthly(ledger, dim_accounts) ==
    LET df == KpiJoined(ledger, dim_accounts)
        kept == PivotRows(df)
        index == {<<kept[i].entity, kept[i].month>> : i \in 1..Len(kept)}
        columns == {kept[i].account_type : i \in 1..Len(kept)}
                   \cup {"Revenue", "COGS", "Expense"}
        cell(ix, c) ==
            IF \E i \in 1..Len(kept) : <<kept[i].entity, kept[i].month>> = ix
                                       /\ kept[i].account_type = c
            THEN KpiGroupSum(df, ix[1], ix[2], c) ELSE 0
        row(ix) ==
            LET gross == GrossProfit(cell(ix, "Revenue"), cell(ix, "COGS"))
            IN  [entity |-> ix[1], month |-> ix[2],
                 cols |-> [c \in columns |-> cell(ix, c)],
                 gross_profit |-> gross,
                 operating_profit |-> OperatingProfit(gross, cell(ix, "Expense"))]
        RECURSIVE Ordered(_)
        Ordered(S) ==
            IF S = {} THEN <<>>
            ELSE LET lo == CHOOSE x \in S : \A y \in S :
                               ~TupleLess(<<Rank(y[1])>> \o KpiKey([month |-> y[2]]),
                                          <<Rank(x[1])>> \o KpiKey([month |-> x[2]]))
                 IN  <<row(lo)>> \o Ordered(S \ {lo})
    IN  Ordered(index)

-----------------------------------------------------------------------------
(* quality.py.  A frame is a sequence of rows (records); a null cell of a  *)
(* string column is "NaN", which is how read_csv reads an empty cell.      *)
(* A schema is modelled by the failure cases schema.validate(df,           *)
(* lazy=True) collects for a frame: none means the frame is valid.         *)
(* A failure case is [index, column, check, schema_context]; index counts  *)
(* rows from 0 and is -1 for a check of the whole frame.                   *)

IsNull(x) == x = "NaN"

\* The failure cases of one column rule: a case per row of bad, a set of row
\* positions, in row order.
ColumnCases(rows, column, check, bad) ==
    LET hit == SelectSeq([i \in 1..Len(rows) |-> i], LAMBDA i : i \in bad)
    IN  [k \in 1..Len(hit) |->
            [index |-> hit[k] - 1, column |-> column, check |-> check,
             schema_context |-> "Column"]]

\* nullable=False
NotNullable(rows, column) ==
    ColumnCases(rows, column, "not_nullable",
                {i \in 1..Len(rows) : IsNull(rows[i][column])})

\* Check.isin(allowed), applied to the cells that are not null
IsIn(rows, column, check, allowed) ==
    ColumnCases(rows, column, check,
                {i \in 1..Len(rows) :
                    ~IsNull(rows[i][column]) /\ rows[i][column] \notin allowed})

FrameCase(check) ==
    << [index |-> 0 - 1, column |-> "NaN", check |-> check,
        schema_context |-> "DataFrameSchema"] >>

\* _dup_check's lambda: df.groupby(keys).size().max() == 1.  groupby leaves out
\* the rows with a null key (a parsed date is never null here); the max of no
\* sizes at all is NaN, and NaN == 1 is False.
DupCheckPasses(rows, keys) ==
    LET Key(r) == [k \in 1..Len(keys) |-> r[keys[k]]]
        KeyHasNull(r) == \E k \in 1..Len(keys) : keys[k] # "date" /\ IsNull(r[keys[k]])
        live == {i \in 1..Len(rows) : ~KeyHasNull(rows[i])}
        sizes == {Cardinality({j \in live : Key(rows[j]) = Key(rows[i])}) : i \in live}
    IN  sizes # {} /\ (\A n \in sizes : n <= 1) /\ 1 \in sizes

_dup_check(rows, keys, message) ==
    IF DupCheckPasses(rows, keys) THEN <<>> ELSE FrameCase(message)

CurrencyCheck == "isin(['USD', 'TZS', 'EUR'])"

\* The rules sales_schema and expenses_schema share; id_column is the document
\* column.
DocumentCases(rows, id_column) ==
    NotNullable(rows, "entity")
    \o NotNullable(rows, id_column)
    \o NotNullable(rows, "account_code")
    \o NotNullable(rows, "currency")
    \o IsIn(rows, "currency", CurrencyCheck, allowed_currencies)
    \o ColumnCases(rows, "amount", "greater_than(0)",
                   {i \in 1..Len(rows) : ~(rows[i].amount > 0)})

sales_schema(rows) ==
    DocumentCases(rows, "invoice_id")
    \o _dup_check(rows, <<"entity", "invoice_id">>,
                  "Duplicates found for keys ['entity', 'invoice_id'] in sales")

expenses_schema(rows) ==
    DocumentCases(rows, "bill_id")
    \o _dup_check(rows, <<"entity", "bill_id">>,
                  "Duplicates found for keys ['entity', 'bill_id'] in expenses")

Abs(x) == IF x < 0 THEN 0 - x ELSE x

\* (gross - deductions - net).abs().max() < 0.01; the max of no rows is NaN,
\* and NaN < 0.01 is False.
PayrollIdentityPasses(rows) ==
    /\ rows # <<>>
    /\ \A i \in 1..Len(rows) : Abs(rows[i].gross - rows[i].deductions - rows[i].net) < 10

payroll_schema(rows) ==
    NotNullable(rows, "month")
    \o NotNullable(rows, "entity")
    \o NotNullable(rows, "employee_id")
    \o NotNullable(rows, "currency")
    \o IsIn(rows, "currency", CurrencyCheck, allowed_currencies)
    \o ColumnCases(rows, "gross", "greater_than_or_equal_to(0)",
                   {i \in 1..Len(rows) : ~(rows[i].gross >= 0)})
    \o ColumnCases(rows, "deductions", "greater_than_or_equal_to(0)",
                   {i \in 1..Len(rows) : ~(rows[i].deductions >= 0)})
    \o ColumnCases(rows, "net", "greater_than_or_equal_to(0)",
                   {i \in 1..Len(rows) : ~(rows[i].net >= 0)})
    \o (IF PayrollIdentityPasses(rows) THEN <<>>
        ELSE FrameCase("Payroll identity gross - deductions = net violated"))

inventory_schema(rows) ==
    NotNullable(rows, "entity")
    \o NotNullable(rows, "sku")
    \o NotNullable(rows, "movement_type")
    \o IsIn(rows, "movement_type", "isin(['receipt', 'issue', 'adjustment'])",
            {"receipt", "issue", "adjustment"})
    \o ColumnCases(rows, "qty", "not_equal_to(0)",
                   {i \in 1..Len(rows) : ~(rows[i].qty # 0)})
    \o ColumnCases(rows, "unit_cost", "greater_than_or_equal_to(0)",
                   {i \in 1..Len(rows) : ~(rows[i].unit_cost >= 0)})
    \o NotNullable(rows, "currency")
    \o IsIn(rows, "currency", CurrencyCheck, allowed_currencies)

fx_schema(rows) ==
    NotNullable(rows, "from_currency")
    \o IsIn(rows, "from_currency", CurrencyCheck, allowed_currencies)
    \o NotNullable(rows, "to_currency")
    \o IsIn(rows, "to_currency", "isin(['USD'])", {base_currency})
    \o ColumnCases(rows, "rate", "greater_than(0)",
                   {i \in 1..Len(rows) : ~(rows[i].rate > 0)})
    \o _dup_check(rows, <<"date", "from_currency", "to_currency">>,
                  "Duplicates found for keys ['date', 'from_currency', 'to_currency'] in fx_rates")

\* A faulty variant: validation stops at the first violation and reports only it.
validate_or_collect_FirstOnly(df, failure_cases, dataset_name, iss) ==
    IF failure_cases = <<>>
    THEN [value |-> Some(df), issues |-> iss]
    ELSE [value |-> None,
          issues |-> Append(iss,
              << [dataset |-> dataset_name, index |-> failure_cases[1].index,
                  column |-> failure_cases[1].column,
                  check |-> failure_cases[1].check,
                  schema_context |-> failure_cases[1].schema_context] >>)]

\* validate_or_collect: [value, issues], value the validated frame or None;
\* failure_cases is the schema's verdict on df.
validate_or_collect(df, failure_cases, dataset_name, iss) ==
    IF failure_cases = <<>>
    THEN [value |-> Some(df), issues |-> iss]
    ELSE [value |-> None,
          issues |-> Append(iss,
              [k \in 1..Len(failure_cases) |->
                  [dataset |-> dataset_name, index |-> failure_cases[k].index,
                   column |-> failure_cases[k].column,
                   check |-> failure_cases[k].check,
                   schema_context |-> failure_cases[k].schema_context]])]

-----------------------------------------------------------------------------
(* pipeline.py                                                             *)

\* _month_window: [first instant of the month, first instant of the next)
_month_window(m) ==
    LET ym == MonthYM(m)
    IN  << <<ym[1], ym[2], 1, 0>>,
           IF ym[2] = 12 THEN <<ym[1] + 1, 1, 1, 0>> ELSE <<ym[1], ym[2] + 1, 1, 0>> >>

critical_checks == <<"dtype", "required", "Duplicates found", "Payroll identity">>

\* The alternatives of patt = "|".join(critical_checks), lower-cased as
\* case=False compares them.
CriticalPatterns == {Lower(Chars(critical_checks[k])) : k \in 1..Len(critical_checks)}

\* str.contains(patt, case=False)
IsCritical(check) ==
    LET text == Lower(Chars(check))
    IN  \E pat \in CriticalPatterns : Contains(text, pat)

SeverityOf(check) == IF IsCritical(check) THEN "ERROR" ELSE "WARN"

\* _tag_severity: every row gets severity WARN, the critical ones then ERROR.
_tag_severity(dq) ==
    [k \in 1..Len(dq) |->
        [dataset |-> dq[k].dataset, index |-> dq[k].index, column |-> dq[k].column,
         check |-> dq[k].check, schema_context |-> dq[k].schema_context,
         severity |-> SeverityOf(dq[k].check)]]

\* groupby(["dataset", "severity"]).size(), sorted by severity ascending and
\* issue_count descending.
DqSummary(dq) ==
    LET groups == {<<dq[k].dataset, dq[k].severity>> :
                       k \in 1..Len(dq)}
        count(g) == Cardinality({k \in 1..Len(dq) :
                        <<dq[k].dataset, dq[k].severity>> = g})
        RECURSIVE Grouped(_)
        Grouped(S) ==
            IF S = {} THEN <<>>
            ELSE LET lo == CHOOSE x \in S : \A y \in S :
                               ~TupleLess(<<Rank(y[1]), Rank(y[2])>>,
                                          <<Rank(x[1]), Rank(x[2])>>)
                 IN  << [dataset |-> lo[1], severity |-> lo[2],
                         issue_count |-> count(lo)] >> \o Grouped(S \ {lo})
        g == Grouped(groups)
    IN  SortByKeys(g, [i \in 1..Len(g) |-> <<Rank(g[i].severity), 0 - g[i].issue_count>>])

\* fail_on.upper().strip()
NormFailOn(f) == Strip(Upper(Chars(f)))

FailOnValid(f) ==
    NormFailOn(f) \in {Chars("ERROR"), Chars("WARN"), Chars("NEVER")}

\* A faulty variant: the ERROR threshold raises on any issue, whatever its severity.
DqThresholdFails_AnyIssue(f, dq) ==
    NormFailOn(f) \in {Chars("WARN"), Chars("ERROR")}

\* The two raise statements of the DQ threshold (pipeline.py 119-122).
DqThresholdFails(f, dq) ==
    \/ NormFailOn(f) = Chars("WARN")
    \/ /\ NormFailOn(f) = Chars("ERROR")
       /\ \E k \in 1..Len(dq) : dq[k].severity = "ERROR"

TsLess(a, b) == TupleLess(a, b)

\* A faulty variant: the end of the window is included.
InWindow_EndIncluded(rows, m) ==
    LET w == _month_window(m)
    IN  SelectSeq(rows, LAMBDA r : ~TsLess(r.date, w[1]) /\ ~TsLess(w[2], r.date))

\* v[(v["date"] >= start) & (v["date"] < end)]
InWindow(rows, m) ==
    LET w == _month_window(m)
    IN  SelectSeq(rows, LAMBDA r : ~TsLess(r.date, w[1]) /\ TsLess(r.date, w[2]))

\* v_pay[v_pay["month"] == month]
InMonth(rows, m) == SelectSeq(rows, LAMBDA r : r.month = m)

-----------------------------------------------------------------------------
(* The inputs the model draws from.                                        *)

MaxSalesRows == 2       \* rows of sales.csv in a run of the pipeline

MaxLedgerRows == 2      \* source rows handed to to_fact_transactions

SeqsUpTo(S, n) == UNION {[1..k -> S] : k \in 0..n}

SeqsFrom1(S, n) == UNION {[1..k -> S] : k \in 1..n}

Dec5 == <<2025, 12, 5, 0>>

Dec5Late == <<2025, 12, 5, 630>>

Dec1 == <<2025, 12, 1, 0>>

Jan1 == <<2026, 1, 1, 0>>

\* 1234.567 USD
SaleUsd ==
    [date |-> Dec5, entity |-> "TLM", invoice_id |-> "INV-0001",
     account_code |-> "40000001", currency |-> "USD", amount |-> 1234567,
     description |-> "sale"]

\* 100.005 EUR, at 10:30
SaleEur ==
    [date |-> Dec5Late, entity |-> "TLM", invoice_id |-> "INV-0002",
     account_code |-> "40000001", currency |-> "EUR", amount |-> 100005,
     description |-> "NaN"]

\* next month, another entity, an account the chart does not know, TZS
SaleJan ==
    [date |-> Jan1, entity |-> "UPE", invoice_id |-> "INV-0001",
     account_code |-> "99999999", currency |-> "TZS", amount |-> 2500000,
     description |-> "sale"]

\* a currency that is not allowed and an amount that is not positive
SaleBad ==
    [date |-> Dec5, entity |-> "UPE", invoice_id |-> "INV-0002",
     account_code |-> "40000001", currency |-> "GBP", amount |-> 0,
     description |-> "sale"]

\* 100.00 EUR
ExpenseEur ==
    [date |-> Dec5, entity |-> "TLM", bill_id |-> "BILL-0001",
     account_code |-> "62000001", currency |-> "EUR", amount |-> 100000,
     description |-> "bill"]

\* 50.125 USD
ExpenseUsd ==
    [date |-> Dec5, entity |-> "TLM", bill_id |-> "BILL-0002",
     account_code |-> "62000001", currency |-> "USD", amount |-> 50125,
     description |-> "bill"]

ExpenseBad == [ExpenseUsd EXCEPT !.amount = 0 - 5000]

PayUsd ==
    [month |-> "2025-12", entity |-> "TLM", employee_id |-> "EMP-001",
     currency |-> "USD", gross |-> 1000000, deductions |-> 100000, net |-> 900000]

PayTzs ==
    [month |-> "2025-12", entity |-> "TLM", employee_id |-> "EMP-002",
     currency |-> "TZS", gross |-> 0, deductions |-> 0, net |-> 0]

\* gross - deductions differs from net by 1.00
PayBad == [PayUsd EXCEPT !.net = 901000]

\* 2.50 x 10.00 issued
InvIssue ==
    [date |-> Dec5, entity |-> "TLM", sku |-> "HONEY-DRUM", movement_type |-> "issue",
     qty |-> 250, unit_cost |-> 10000, currency |-> "USD"]

\* -1.00 x 3.333 received, EUR
InvReceipt ==
    [date |-> Dec1, entity |-> "UPE", sku |-> "WAX-BLOCK", movement_type |-> "receipt",
     qty |-> 0 - 100, unit_cost |-> 3333, currency |-> "EUR"]

\* a movement type that is not allowed, and no sku
InvBad == [InvIssue EXCEPT !.movement_type = "transfer", !.sku = "NaN"]

FxEur == [date |-> Dec5, from_currency |-> "EUR", to_currency |-> "USD", rate |-> 110]

\* the same calendar day as FxEur, another time of day
FxEurLate == [date |-> Dec5Late, from_currency |-> "EUR", to_currency |-> "USD", rate |-> 125]

FxUsd == [date |-> Dec5, from_currency |-> "USD", to_currency |-> "USD", rate |-> 200]

FxEurDec1 == [date |-> Dec1, from_currency |-> "EUR", to_currency |-> "USD", rate |-> 105]

FxBad == [FxEur EXCEPT !.rate = 0]

CoaFull ==
    << [account_code |-> "10000001", account_name |-> "Inventory", account_type |-> "Asset"],
       [account_code |-> "40000001", account_name |-> "Sales", account_type |-> "Revenue"],
       [account_code |-> "50000001", account_name |-> "Cost of goods", account_type |-> "COGS"],
       [account_code |-> "61000001", account_name |-> "Payroll", account_type |-> "Expense"],
       [account_code |-> "62000001", account_name |-> "Rent", account_type |-> "Expense"] >>

CoaRevenueOnly ==
    << [account_code |-> "40000001", account_name |-> "Sales", account_type |-> "Revenue"] >>

\* sales.csv: any rows, or none but the header
SalesFrames == SeqsUpTo({SaleUsd, SaleEur, SaleJan, SaleBad}, MaxSalesRows)

ExpensesFrames == {<<ExpenseEur>>, <<ExpenseUsd>>, <<ExpenseBad>>}

PayrollFrames == {<<PayUsd>>, <<PayBad>>}

InventoryFrames == {<<>>, <<InvIssue>>, <<InvBad>>}

FxFrames == {<<FxEur>>, <<FxEurDec1>>, <<FxEur, FxEurLate>>, <<FxBad>>}

FailOnArgs == {"ERROR", " warn", "NEVER", "BOGUS"}

NoFiles ==
    [dq_exceptions |-> None, dq_summary |-> None, fact |-> None,
     dim_accounts |-> None, kpi |-> None]

NoError == [kind |-> "NoError", at |-> "NaN", missing |-> {}]

\* An exception of the given kind raised at the place pc.
Raised(kind, missing) == [kind |-> kind, at |-> pc, missing |-> missing]

-----------------------------------------------------------------------------
(* run_month.  Init is the state after the six files are read (pipeline.py *)
(* 52-88) and before the first validation.                                 *)

Init ==
    /\ pc = "validate_sales"
    /\ fail_on \in FailOnArgs
    /\ month = "2025-12"
    /\ coa = CoaFull
    /\ sales \in SalesFrames
    /\ expenses \in ExpensesFrames
    /\ payroll \in PayrollFrames
    /\ inventory \in InventoryFrames
    /\ fx_rates \in FxFrames
    /\ issues = <<>>
    /\ dq_exceptions = None
    /\ v_sales = None /\ v_exp = None /\ v_pay = None /\ v_inv = None /\ v_fx = None
    /\ fx = None /\ fact = None /\ kpi = None
    /\ files = NoFiles
    /\ error = NoError
    /\ argv = <<>> /\ exit_code = None /\ stdout = <<>>

inputs == <<fail_on, month, coa, sales, expenses, payroll, inventory, fx_rates>>

\* The command line and the console, which run_month does not touch.
invocation == <<argv, exit_code, stdout>>

\* pipeline.py 93
ValidateSales ==
    /\ pc = "validate_sales"
    /\ LET r == validate_or_collect(sales, sales_schema(sales), "sales", issues)
       IN  v_sales' = r.value /\ issues' = r.issues
    /\ pc' = "validate_expenses"
    /\ UNCHANGED <<inputs, invocation, dq_exceptions, v_exp, v_pay, v_inv, v_fx, fx, fact, kpi, files, error>>

\* pipeline.py 94
ValidateExpenses ==
    /\ pc = "validate_expenses"
    /\ LET r == validate_or_collect(expenses, expenses_schema(expenses), "expenses", issues)
       IN  v_exp' = r.value /\ issues' = r.issues
    /\ pc' = "validate_payroll"
    /\ UNCHANGED <<inputs, invocation, dq_exceptions, v_sales, v_pay, v_inv, v_fx, fx, fact, kpi, files, error>>

\* pipeline.py 95
ValidatePayroll ==
    /\ pc = "validate_payroll"
    /\ LET r == validate_or_collect(payroll, payroll_schema(payroll), "payroll", issues)
       IN  v_pay' = r.value /\ issues' = r.issues
    /\ pc' = "validate_inventory"
    /\ UNCHANGED <<inputs, invocation, dq_exceptions, v_sales, v_exp, v_inv, v_fx, fx, fact, kpi, files, error>>

\* pipeline.py 96
ValidateInventory ==
    /\ pc = "validate_inventory"
    /\ LET r == validate_or_collect(inventory, inventory_schema(inventory),
                                    "inventory_movements", issues)
       IN  v_inv' = r.value /\ issues' = r.issues
    /\ pc' = "validate_fx"
    /\ UNCHANGED <<inputs, invocation, dq_exceptions, v_sales, v_exp, v_pay, v_fx, fx, fact, kpi, files, error>>

\* pipeline.py 97
ValidateFx ==
    /\ pc = "validate_fx"
    /\ LET r == validate_or_collect(fx_rates, fx_schema(fx_rates), "fx_rates", issues)
       IN  v_fx' = r.value /\ issues' = r.issues
    /\ pc' = "dq_report"
    /\ UNCHANGED <<inputs, invocation, dq_exceptions, v_sales, v_exp, v_pay, v_inv, fx, fact, kpi, files, error>>

PassMarker(m) == << [status |-> "PASS", month |-> m] >>

\* A faulty variant: with issues the two DQ files are not written before the threshold.
WriteDqReport_NotOnIssues ==
    /\ pc = "dq_report"
    /\ IF issues # <<>>
       THEN /\ dq_exceptions' = Some(_tag_severity(Flatten(issues)))
            /\ files' = files
            /\ pc' = "check_fail_on"
       ELSE /\ dq_exceptions' = dq_exceptions
            /\ files' = [files EXCEPT
                            !.dq_exceptions = Some(<<>>),
                            !.dq_summary = Some(PassMarker(month))]
            /\ pc' = "filter"
    /\ UNCHANGED <<inputs, invocation, issues, v_sales, v_exp, v_pay, v_inv, v_fx, fx, fact, kpi, error>>

\* pipeline.py 102-113 (issues) and 126-132 (none): the two DQ files are written.
WriteDqReport ==
    /\ pc = "dq_report"
    /\ IF issues # <<>>
       THEN /\ dq_exceptions' = Some(_tag_severity(Flatten(issues)))
            /\ files' = [files EXCEPT
                            !.dq_exceptions = dq_exceptions',
                            !.dq_summary = Some(DqSummary(dq_exceptions'[1]))]
            /\ pc' = "check_fail_on"
       ELSE /\ dq_exceptions' = dq_exceptions
            /\ files' = [files EXCEPT
                            !.dq_exceptions = Some(<<>>),
                            !.dq_summary = Some(PassMarker(month))]
            /\ pc' = "filter"
    /\ UNCHANGED <<inputs, invocation, issues, v_sales, v_exp, v_pay, v_inv, v_fx, fx, fact, kpi, error>>

\* pipeline.py 115-124, reached only with issues
CheckFailOn ==
    /\ pc = "check_fail_on"
    /\ IF ~FailOnValid(fail_on)
       THEN error' = Raised("ConfigError", {}) /\ pc' = "failed"
       ELSE IF DqThresholdFails(fail_on, dq_exceptions[1])
       THEN error' = Raised("DqFailed", {}) /\ pc' = "failed"
       ELSE error' = error /\ pc' = "filter"
    /\ UNCHANGED <<inputs, invocation, dq_exceptions, issues, v_sales, v_exp, v_pay, v_inv, v_fx, fx, fact, kpi, files>>

\* pipeline.py 135-140.  A frame whose validation failed is None, and
\* None[...] raises TypeError.
FilterMonth ==
    /\ pc = "filter"
    /\ IF v_sales = None \/ v_exp = None \/ v_inv = None \/ v_pay = None
       THEN /\ error' = Raised("TypeError", {})
            /\ pc' = "failed"
            /\ UNCHANGED <<v_sales, v_exp, v_inv, v_pay>>
       ELSE /\ v_sales' = Some(InWindow(v_sales[1], month))
            /\ v_exp' = Some(InWindow(v_exp[1], month))
            /\ v_inv' = Some(InWindow(v_inv[1], month))
            /\ v_pay' = Some(InMonth(v_pay[1], month))
            /\ pc' = "fx_to_base"
            /\ error' = error
    /\ UNCHANGED <<inputs, invocation, dq_exceptions, issues, v_fx, fx, fact, kpi, files>>

\* pipeline.py 142.  fx_to_base(None) raises AttributeError at fx_rates.copy().
FxToBase ==
    /\ pc = "fx_to_base"
    /\ IF v_fx = None
       THEN /\ error' = Raised("AttributeError", {})
            /\ pc' = "failed"
            /\ fx' = fx
       ELSE /\ fx' = Some(fx_to_base(v_fx[1], base_currency))
            /\ pc' = "to_fact"
            /\ error' = error
    /\ UNCHANGED <<inputs, invocation, dq_exceptions, issues, v_sales, v_exp, v_pay, v_inv, v_fx, fact, kpi, files>>

\* pipeline.py 144
ToFact ==
    /\ pc = "to_fact"
    /\ LET r == to_fact_transactions(v_sales[1], v_exp[1], v_pay[1], v_inv[1],
                                     fx[1], base_currency)
       IN  IF r.status = "ok"
           THEN fact' = Some(r.rows) /\ pc' = "kpi" /\ error' = error
           ELSE /\ fact' = fact
                /\ pc' = "failed"
                /\ error' = Raised(r.status, r.missing)
    /\ UNCHANGED <<inputs, invocation, dq_exceptions, issues, v_sales, v_exp, v_pay, v_inv, v_fx, fx, kpi, files>>

\* pipeline.py 145
Kpi ==
    /\ pc = "kpi"
    /\ kpi' = Some(kpi_monthly(fact[1], build_dim_accounts(coa)))
    /\ pc' = "write"
    /\ UNCHANGED <<inputs, invocation, dq_exceptions, issues, v_sales, v_exp, v_pay, v_inv, v_fx, fx, fact, files, error>>

\* pipeline.py 151-161
WriteOutputs ==
    /\ pc = "write"
    /\ files' = [files EXCEPT !.fact = fact,
                              !.dim_accounts = Some(build_dim_accounts(coa)),
                              !.kpi = kpi]
    /\ pc' = "done"
    /\ UNCHANGED <<inputs, invocation, dq_exceptions, issues, v_sales, v_exp, v_pay, v_inv, v_fx, fx, fact, kpi, error>>

Next ==
    \/ ValidateSales
    \/ ValidateExpenses
    \/ ValidatePayroll
    \/ ValidateInventory
    \/ ValidateFx
    \/ WriteDqReport
    \/ CheckFailOn
    \/ FilterMonth
    \/ FxToBase
    \/ ToFact
    \/ Kpi
    \/ WriteOutputs

Spec == Init /\ [][Next]_vars

-----------------------------------------------------------------------------
(* The transform functions on their own: fx_to_base, to_fact_transactions  *)
(* (with add_fx_amount_base) and kpi_monthly applied to any frames that    *)
(* passed validation, of one month or of several.                          *)

LedgerSourceRows ==
    {<<"sales", r>> : r \in {SaleUsd, SaleEur, SaleJan}}
    \cup {<<"expenses", r>> : r \in {ExpenseEur, ExpenseUsd}}
    \cup {<<"payroll", r>> : r \in {PayUsd, PayTzs}}
    \cup {<<"inventory", r>> : r \in {InvIssue, InvReceipt}}

RowsOf(src, source) ==
    LET hit == SelectSeq(src, LAMBDA x : x[1] = source)
    IN  [i \in 1..Len(hit) |-> hit[i][2]]

\* a subsequence of FxRows: the rows of a validated fx_rates.csv
FxValidFrames ==
    LET all == <<FxEur, FxEurLate, FxUsd, FxEurDec1>>
    IN  {SelectSeq([i \in 1..Len(all) |-> <<i, all[i]>>], LAMBDA x : x[1] \in S) :
            S \in (SUBSET (1..Len(all))) \ {{}}}

FxFrameRows(f) == [i \in 1..Len(f) |-> f[i][2]]

\* rows that passed their schema: a valid frame, or what is left of one
Passed(rows, failure_cases) == rows = <<>> \/ failure_cases = <<>>

InitT ==
    /\ pc = "fx_to_base"
    /\ fail_on = "ERROR"
    /\ month = "2025-12"
    /\ coa \in {CoaFull, CoaRevenueOnly}
    /\ \E src \in SeqsUpTo(LedgerSourceRows, MaxLedgerRows) :
          /\ sales = RowsOf(src, "sales")
          /\ expenses = RowsOf(src, "expenses")
          /\ payroll = RowsOf(src, "payroll")
          /\ inventory = RowsOf(src, "inventory")
    /\ Passed(sales, sales_schema(sales))
    /\ Passed(expenses, expenses_schema(expenses))
    /\ Passed(payroll, payroll_schema(payroll))
    /\ Passed(inventory, inventory_schema(inventory))
    /\ \E f \in FxValidFrames : fx_rates = FxFrameRows(f)
    /\ fx_schema(fx_rates) = <<>>
    /\ issues = <<>>
    /\ dq_exceptions = None
    /\ v_sales = Some(sales) /\ v_exp = Some(expenses) /\ v_pay = Some(payroll)
    /\ v_inv = Some(inventory) /\ v_fx = Some(fx_rates)
    /\ fx = None /\ fact = None /\ kpi = None
    /\ files = [NoFiles EXCEPT !.dq_exceptions = Some(<<>>),
                               !.dq_summary = Some(PassMarker(month))]
    /\ error = NoError
    /\ argv = <<>> /\ exit_code = None /\ stdout = <<>>

NextT ==
    \/ FxToBase
    \/ ToFact
    \/ Kpi

SpecT == InitT /\ [][NextT]_vars

-----------------------------------------------------------------------------
(* The month filter and the unification on their own: run_month from line  *)
(* 135 with frames that passed validation, for several target months and   *)
(* with rows dated at the edges of December 2025.                          *)

Nov30Late == <<2025, 11, 30, 1439>>

Dec31Late == <<2025, 12, 31, 1439>>

EdgeDates == {Nov30Late, Dec1, Dec5, Dec31Late, Jan1}

TargetMonths == {"2024-02", "2025-02", "2025-11", "2025-12"}

SaleOn(ts, id) == [SaleUsd EXCEPT !.date = ts, !.invoice_id = id]

ExpenseOn(ts) == [ExpenseUsd EXCEPT !.date = ts]

InvOn(ts) == [InvIssue EXCEPT !.date = ts]

PayFor(m, employee_id) == [PayUsd EXCEPT !.month = m, !.employee_id = employee_id]

InitF ==
    /\ pc = "filter"
    /\ fail_on = "ERROR"
    /\ month \in TargetMonths
    /\ coa = CoaFull
    /\ sales \in {<<SaleOn(d, "INV-0001")>> : d \in EdgeDates}
                 \cup {<<SaleOn(d, "INV-0001"), SaleOn(e, "INV-0002")>> :
                          d \in EdgeDates, e \in EdgeDates}
    /\ expenses \in {<<ExpenseOn(d)>> : d \in {Dec1, Dec31Late, Jan1}}
    /\ payroll \in {<<PayFor(m, "EMP-001")>> : m \in TargetMonths}
                   \cup {<<PayFor("2025-11", "EMP-001"), PayFor("2025-12", "EMP-002")>>}
    /\ inventory \in {<<>>} \cup {<<InvOn(d)>> : d \in {Dec1, Jan1}}
    /\ fx_rates = <<FxEur>>
    /\ sales_schema(sales) = <<>>
    /\ expenses_schema(expenses) = <<>>
    /\ payroll_schema(payroll) = <<>>
    /\ inventory_schema(inventory) = <<>>
    /\ fx_schema(fx_rates) = <<>>
    /\ issues = <<>>
    /\ dq_exceptions = None
    /\ v_sales = Some(sales) /\ v_exp = Some(expenses) /\ v_pay = Some(payroll)
    /\ v_inv = Some(inventory) /\ v_fx = Some(fx_rates)
    /\ fx = None /\ fact = None /\ kpi = None
    /\ files = [NoFiles EXCEPT !.dq_exceptions = Some(<<>>),
                               !.dq_summary = Some(PassMarker(month))]
    /\ error = NoError
    /\ argv = <<>> /\ exit_code = None /\ stdout = <<>>

NextF ==
    \/ FilterMonth
    \/ FxToBase
    \/ ToFact

SpecF == InitF /\ [][NextF]_vars

-----------------------------------------------------------------------------
(* cli.py: the Typer application.  argv is <<program, command, options>>;  *)
(* a line of output is the sequence of its words.                          *)

\* The commands registered on app (cli.py 13 and 38).
Commands == {"hello", "run"}

\* Click's usage error: the usage line and the message on the console, exit
\* status 2.
UsageError(usage, message) == << <<"Usage:">> \o usage, <<"Error:">> \o message >>

HasOption(opts, name) == \E i \in 1..(Len(opts) - 1) : opts[i] = name

\* The value given for an option, or its default.
OptionValue(opts, name, default) ==
    IF HasOption(opts, name)
    THEN opts[(CHOOSE i \in 1..(Len(opts) - 1) : opts[i] = name) + 1]
    ELSE default

\* str(int) of a count
IntStr(n) ==
    CASE n = 0 -> "0" [] n = 1 -> "1" [] n = 2 -> "2" [] n = 3 -> "3" [] n = 4 -> "4"
      [] n = 5 -> "5" [] n = 6 -> "6" [] n = 7 -> "7" [] n = 8 -> "8" [] n = 9 -> "9"

\* _print_dq_summary (cli.py 17-36) of the content of dq_summary.csv
_print_dq_summary(summary) ==
    IF summary = None THEN <<>>
    ELSE IF summary[1] # <<>> /\ "status" \in DOMAIN summary[1][1]
    THEN << <<"DQ", "status:", summary[1][1].status>> >>
    ELSE IF summary[1] = <<>>
    THEN << <<"DQ", "summary:", "no", "issues">> >>
    ELSE << <<"DQ", "summary", "(issues):">> >>
         \o [k \in 1..Len(summary[1]) |->
                <<"-", summary[1][k].dataset, "|", summary[1][k].severity, "|",
                  IntStr(summary[1][k].issue_count)>>]

\* The lines run prints after run_month returned (cli.py 48-52).
RunReport(summary) ==
    _print_dq_summary(summary)
    \o << <<"ETL", "complete">>,
          <<"-", "dq_exceptions:", "dq_exceptions.csv">>,
          <<"-", "dq_summary:", "dq_summary.csv">>,
          <<"-", "fact:", "fact_transactions.parquet">>,
          <<"-", "dim_accounts:", "dim_accounts.parquet">>,
          <<"-", "kpi:", "kpi_monthly.parquet">> >>

\* app(): Click resolves the command; hello prints its greeting, run parses its
\* options and calls run_month, any other name is a usage error.
CliDispatch ==
    /\ pc = "cli"
    /\ LET prog == argv[1]
           command == argv[2]
           opts == SubSeq(argv, 3, Len(argv))
       IN  IF command \notin Commands
           THEN /\ stdout' = UsageError(<<prog, "[OPTIONS]", "COMMAND", "[ARGS]...">>,
                                        <<"No", "such", "command", "'" \o command \o "'.">>)
                /\ exit_code' = Some(2)
                /\ pc' = "exited"
                /\ UNCHANGED <<month, fail_on>>
           ELSE IF command = "hello"
           THEN /\ stdout' = << <<"Hello", OptionValue(opts, "--name", "Zahidah") \o "!",
                                  "CLI", "wiring", "works", "?">> >>
                /\ exit_code' = Some(0)
                /\ pc' = "exited"
                /\ UNCHANGED <<month, fail_on>>
           ELSE IF ~HasOption(opts, "--month")
           THEN /\ stdout' = UsageError(<<prog, "run", "[OPTIONS]">>,
                                        <<"Missing", "option", "'--month'.">>)
                /\ exit_code' = Some(2)
                /\ pc' = "exited"
                /\ UNCHANGED <<month, fail_on>>
           ELSE /\ month' = OptionValue(opts, "--month", month)
                /\ fail_on' = OptionValue(opts, "--fail-on", "ERROR")
                /\ pc' = "validate_sales"
                /\ UNCHANGED <<exit_code, stdout>>
    /\ UNCHANGED <<argv, coa, sales, expenses, payroll, inventory, fx_rates, issues,
                   dq_exceptions, v_sales, v_exp, v_pay, v_inv, v_fx, fx, fact, kpi,
                   files, error>>

\* cli.py 48-52: run_month returned, the report is printed and the process
\* exits with status 0.
CliReturn ==
    /\ pc = "done"
    /\ stdout' = stdout \o RunReport(files.dq_summary)
    /\ exit_code' = Some(0)
    /\ pc' = "exited"
    /\ UNCHANGED <<inputs, argv, issues, dq_exceptions, v_sales, v_exp, v_pay, v_inv,
                   v_fx, fx, fact, kpi, files, error>>

\* cli.py 46: run_month raised; run does not catch, the traceback is printed
\* and the process exits with status 1.
CliTraceback ==
    /\ pc = "failed"
    /\ stdout' = stdout \o << <<"Traceback", "(most", "recent", "call", "last):">>,
                              <<error.kind>> >>
    /\ exit_code' = Some(1)
    /\ pc' = "exited"
    /\ UNCHANGED <<inputs, argv, issues, dq_exceptions, v_sales, v_exp, v_pay, v_inv,
                   v_fx, fx, fact, kpi, files, error>>

\* How the program is started: the console script, or the module.
Programs == {"finance-etl", "python -m finance_etl.cli"}

CliArgs ==
    {<<prog, command>> : prog \in Programs, command \in {"hello", "run", "version"}}
    \cup {<<prog, "run", "--month", "2025-12">> : prog \in Programs}
    \cup {<<prog, "run", "--month", "2025-12", "--fail-on", f>> :
             prog \in Programs, f \in FailOnArgs}

InitCli ==
    /\ pc = "cli"
    /\ argv \in CliArgs
    /\ exit_code = None
    /\ stdout = <<>>
    /\ fail_on = "ERROR"
    /\ month = "2025-12"
    /\ coa = CoaFull
    /\ sales \in SalesFrames
    /\ expenses = <<ExpenseUsd>>
    /\ payroll \in PayrollFrames
    /\ inventory = <<>>
    /\ fx_rates = <<FxEur>>
    /\ issues = <<>>
    /\ dq_exceptions = None
    /\ v_sales = None /\ v_exp = None /\ v_pay = None /\ v_inv = None /\ v_fx = None
    /\ fx = None /\ fact = None /\ kpi = None
    /\ files = NoFiles
    /\ error = NoError

NextCli ==
    \/ CliDispatch
    \/ Next
    \/ CliReturn
    \/ CliTraceback

SpecCli == InitCli /\ [][NextCli]_vars

-----------------------------------------------------------------------------
(* Properties of run_month (checked under Spec)                            *)

ValidationStages ==
    {"validate_sales", "validate_expenses", "validate_payroll",
     "validate_inventory", "validate_fx"}

\* The stages from the month filter (pipeline.py 135) on.
FilteringOnward == {"filter", "fx_to_base", "to_fact", "kpi", "write", "done"}

\* The run got as far as the month filter: it is there or beyond, or it failed there
\* or beyond.
ReachedFiltering ==
    \/ pc \in FilteringOnward
    \/ pc = "failed" /\ error.at \in FilteringOnward

\* The run raised after the DQ report and before the month filter.
AbortedBeforeFiltering == pc = "failed" /\ error.at = "check_fail_on"

FailOnIs(name) == NormFailOn(fail_on) = Chars(name)

\* Some exception row of the written log carries severity ERROR.
LogHasError ==
    /\ files.dq_exceptions # None
    /\ \E k \in 1..Len(files.dq_exceptions[1]) : files.dq_exceptions[1][k].severity = "ERROR"

DqFilesWritten == files.dq_exceptions # None /\ files.dq_summary # None

NoCuratedWritten == files.fact = None /\ files.dim_accounts = None /\ files.kpi = None

AllFiveWritten ==
    /\ DqFilesWritten
    /\ files.fact # None /\ files.dim_accounts # None /\ files.kpi # None

\* C1: with at least one data-quality issue and fail_on one of ERROR, WARN, NEVER
\* (after upper-casing and stripping), once the threshold has been evaluated the
\* run has raised before the month filter if and only if fail_on is WARN, or
\* fail_on is ERROR and some issue has severity ERROR; in every other case it
\* has gone on to the month filter.
C1_ThresholdDecidesAbort ==
    (issues # <<>> /\ FailOnValid(fail_on)
        /\ pc \notin ValidationStages \cup {"dq_report", "check_fail_on"})
    => LET aborts == FailOnIs("WARN") \/ (FailOnIs("ERROR") /\ LogHasError)
       IN  /\ AbortedBeforeFiltering <=> aborts
           /\ ~aborts => ReachedFiltering

\* C1: a run with fail_on=ERROR whose issues are all WARN stands at the month filter.
C1_Witness ==
    /\ pc = "filter" /\ issues # <<>> /\ FailOnIs("ERROR") /\ ~LogHasError

\* C2: a run with fail_on=NEVER that has ended, and not for an FX rate, has
\* ended in "done" with all five artifacts written, whatever schema violations
\* its inputs held.
C2_NeverAlwaysCompletes ==
    (FailOnIs("NEVER") /\ pc \in {"done", "failed"}
        /\ error.kind \notin {"MissingFx", "IndexingError"})
    => (pc = "done" /\ AllFiveWritten)

\* C3: when the run raises for the DQ threshold or for a missing FX rate, the DQ
\* exceptions log and the DQ summary were already written before the raising
\* step, and none of the three curated artifacts is written.
C3_FailureLeavesOnlyDqFiles ==
    [][(pc # "failed" /\ pc' = "failed" /\ error'.kind \in {"DqFailed", "MissingFx"})
        => (DqFilesWritten /\ DqFilesWritten' /\ NoCuratedWritten')]_vars

\* C3: a run that failed for a missing FX rate.
C3_Witness ==
    /\ pc = "failed" /\ error.kind = "MissingFx"
    /\ DqFilesWritten /\ NoCuratedWritten

\* C4: a run with an invalid fail_on never gets past its first step: no dataset is
\* validated and no file written before it fails with the configuration error,
\* and it never completes.
C4_InvalidFailOnFailsFast ==
    ~FailOnValid(fail_on)
    => /\ pc # "done"
       /\ pc = "failed" => (error.kind = "ConfigError" /\ files = NoFiles)

-----------------------------------------------------------------------------
(* Properties of the transform functions (checked under SpecT)             *)

\* to_fact_transactions has run.
Converted == pc \in {"kpi", "write"} \/ (pc = "failed" /\ error.at = "to_fact")

\* The records handed to the conversion: the four frames in the ledger's shape.
SourceRecords ==
    SalesShape(v_sales[1]) \o ExpensesShape(v_exp[1])
    \o PayrollShape(v_pay[1]) \o InventoryShape(v_inv[1])

HasRate(date, currency) ==
    \E i \in 1..Len(fx[1]) :
        fx[1][i].date = date /\ fx[1][i].from_currency = currency

\* The (calendar date, currency) pairs of the records in a foreign currency
\* that the FX lookup has no entry for.
MissingPairs ==
    {<<DateOf(SourceRecords[i].date), SourceRecords[i].currency>> :
        i \in {j \in 1..Len(SourceRecords) :
                  /\ SourceRecords[j].currency # base_currency
                  /\ ~HasRate(DateOf(SourceRecords[j].date), SourceRecords[j].currency)}}

\* C5: the conversion fails with the missing-rate error if and only if some
\* record in a foreign currency has no FX entry for its (calendar date,
\* currency); the error lists exactly the distinct missing pairs, and no ledger
\* is produced.
C5_MissingRateIffPairMissing ==
    Converted
    => /\ (pc = "failed" /\ error.kind = "MissingFx") <=> (MissingPairs # {})
       /\ MissingPairs # {} => (error.missing = MissingPairs /\ fact = None)

Ledger == fact[1]

HasLedger == fact # None

\* C6 as stated: an entry in the base currency has rate 1.0 and amount_base
\* equal to amount.
C6_BaseAmountUnchanged ==
    HasLedger
    => \A i \in 1..Len(Ledger) :
          Ledger[i].currency = base_currency
          => (Ledger[i].rate = 100 /\ Ledger[i].amount_base = Ledger[i].amount)

\* C6 amended: an entry in the base currency has rate 1.0 and amount_base equal to
\* amount rounded to 2 decimals, whatever the FX table holds.
C6_BaseAmountRounded ==
    HasLedger
    => \A i \in 1..Len(Ledger) :
          Ledger[i].currency = base_currency
          => (Ledger[i].rate = 100 /\ Ledger[i].amount_base = Round2(Ledger[i].amount))

\* C6: a ledger with a base-currency entry of more than 2 decimals, converted
\* while the FX table holds a rate from the base currency to itself.
C6_Witness ==
    /\ HasLedger
    /\ \E i \in 1..Len(Ledger) :
          Ledger[i].currency = base_currency /\ Ledger[i].amount % 10 # 0
    /\ \E k \in 1..Len(fx_rates) : fx_rates[k].from_currency = base_currency

\* The rows of fx_rates.csv for a calendar date and a currency.
RatesFor(date, currency) ==
    {fx_rates[k].rate : k \in {j \in 1..Len(fx_rates) :
        /\ DateOf(fx_rates[j].date) = date
        /\ fx_rates[j].from_currency = currency
        /\ fx_rates[j].to_currency = base_currency}}

\* The amount a ledger entry of a sale or an expense must carry: its source
\* row's amount, negated for an expense.
SignedSourceAmounts(e) ==
    IF e.source = "sales"
    THEN {sales[k].amount : k \in {j \in 1..Len(sales) :
              sales[j].entity = e.entity /\ sales[j].invoice_id = e.document_id}}
    ELSE {0 - expenses[k].amount : k \in {j \in 1..Len(expenses) :
              expenses[j].entity = e.entity /\ expenses[j].bill_id = e.document_id}}

\* C7: an entry in a foreign currency carries the rate of the FX row of its own
\* calendar date and currency, amount_base is amount x rate rounded to the
\* nearest hundredth, and a sale or expense entry carries its source amount
\* with the source's sign.
C7_ForeignRateExactDate ==
    HasLedger
    => \A i \in 1..Len(Ledger) :
          Ledger[i].currency # base_currency
          => /\ RatesFor(DateOf(Ledger[i].date), Ledger[i].currency) = {Ledger[i].rate}
             /\ Ledger[i].amount_base % 10 = 0
             /\ Abs(Ledger[i].amount_base * 100 - Ledger[i].amount * Ledger[i].rate) <= 500
             /\ Ledger[i].source \in {"sales", "expenses"}
                => SignedSourceAmounts(Ledger[i]) = {Ledger[i].amount}

\* C7: the spec's example: an expense of 100.00 EUR at 1.10 gives -100.00, 1.10, -110.00.
C7_Witness ==
    /\ HasLedger
    /\ \E i \in 1..Len(Ledger) :
          /\ Ledger[i].source = "expenses" /\ Ledger[i].currency = "EUR"
          /\ Ledger[i].amount = 0 - 100000 /\ Ledger[i].rate = 110
          /\ Ledger[i].amount_base = 0 - 110000

LedgerGroupSum(entity, m, source) ==
    LET g == SelectSeq(Ledger, LAMBDA e : e.entity = entity /\ MonthOf(e.date) = m
                                          /\ e.source = source)
    IN  SumSeq([i \in 1..Len(g) |-> g[i].amount_base])

\* C8: the amount_base of the expenses entries, and of the payroll entries, of
\* an entity and month sum to at most 0.
C8_OutflowsNonPositive ==
    HasLedger
    => \A i \in 1..Len(Ledger) :
          Ledger[i].source \in {"expenses", "payroll"}
          => LedgerGroupSum(Ledger[i].entity, MonthOf(Ledger[i].date), Ledger[i].source) <= 0

\* C8: a ledger with two expense entries of one entity and month.
C8_Witness ==
    /\ HasLedger
    /\ \E i, j \in 1..Len(Ledger) :
          /\ i # j
          /\ Ledger[i].source = "expenses" /\ Ledger[j].source = "expenses"
          /\ Ledger[i].entity = Ledger[j].entity
          /\ MonthOf(Ledger[i].date) = MonthOf(Ledger[j].date)
          /\ LedgerGroupSum(Ledger[i].entity, MonthOf(Ledger[i].date), "expenses") < 0

HasKpi == kpi # None

KpiRows == kpi[1]

\* The amount_base of all ledger entries of an entity and month.
LedgerTotal(entity, m) ==
    LET g == SelectSeq(Ledger, LAMBDA e : e.entity = entity /\ MonthOf(e.date) = m)
    IN  SumSeq([i \in 1..Len(g) |-> g[i].amount_base])

RECURSIVE SumOver(_, _)
SumOver(f, S) ==
    IF S = {} THEN 0
    ELSE LET x == CHOOSE y \in S : TRUE IN f[x] + SumOver(f, S \ {x})

\* C9: in every KPI row the classification columns sum to the amount_base of all
\* ledger entries of the row's entity and month, those with an account code the
\* chart does not know included (they are summed, not dropped).
C9_KpiReconcilesWithLedger ==
    HasKpi
    => \A k \in 1..Len(KpiRows) :
          SumOver(KpiRows[k].cols, DOMAIN KpiRows[k].cols)
            = LedgerTotal(KpiRows[k].entity, KpiRows[k].month)

\* The amount_base of the ledger entries of an entity and month whose account
\* the chart classifies under account_type.
ClassifiedTotal(entity, m, account_type) ==
    LET g == SelectSeq(Ledger, LAMBDA e :
                 /\ e.entity = entity /\ MonthOf(e.date) = m
                 /\ \E a \in 1..Len(coa) : coa[a].account_code = e.account_code
                                           /\ coa[a].account_type = account_type)
    IN  SumSeq([i \in 1..Len(g) |-> g[i].amount_base])

\* C10: in every KPI row Revenue, COGS and Expense are the sums of amount_base of
\* the entries of that entity and month classified under that type (0 when
\* there is none), gross_profit = Revenue + COGS and operating_profit =
\* gross_profit + Expense.
C10_ProfitsAreSums ==
    HasKpi
    => \A k \in 1..Len(KpiRows) :
          LET row == KpiRows[k]
              total(ty) == ClassifiedTotal(row.entity, row.month, ty)
          IN  /\ \A ty \in {"Revenue", "COGS", "Expense"} : row.cols[ty] = total(ty)
              /\ row.gross_profit = total("Revenue") + total("COGS")
              /\ row.operating_profit = row.gross_profit + total("Expense")

\* C10: a KPI row with revenue, no COGS entry, and a non-zero expense.
C10_Witness ==
    /\ HasKpi
    /\ \E k \in 1..Len(KpiRows) :
          /\ KpiRows[k].cols["Revenue"] > 0
          /\ KpiRows[k].cols["COGS"] = 0
          /\ KpiRows[k].cols["Expense"] < 0
          /\ KpiRows[k].operating_profit # KpiRows[k].gross_profit

-----------------------------------------------------------------------------
(* Properties of the exceptions log (checked under Spec)                   *)

\* What a row of the exceptions log is a failure of, by the name pandera gives
\* the failed check of each rule of quality.py.
CheckKind(check) ==
    CASE check = "not_nullable" -> "required"
      [] check \in {CurrencyCheck, "isin(['USD'])",
                    "isin(['receipt', 'issue', 'adjustment'])"} -> "enum"
      [] check \in {"greater_than(0)", "greater_than_or_equal_to(0)",
                    "not_equal_to(0)"} -> "range"
      [] check \in {"Duplicates found for keys ['entity', 'invoice_id'] in sales",
                    "Duplicates found for keys ['entity', 'bill_id'] in expenses",
                    "Duplicates found for keys ['date', 'from_currency', 'to_currency'] in fx_rates"}
            -> "duplicate-key"
      [] check = "Payroll identity gross - deductions = net violated"
            -> "payroll-identity"

CriticalKinds == {"dtype", "required", "duplicate-key", "payroll-identity"}

\* The tagged exceptions of the run, once _tag_severity has been applied.
HasExceptions == dq_exceptions # None

Exceptions == dq_exceptions[1]

\* C11: every row of the tagged exceptions log has severity ERROR or WARN, and
\* ERROR exactly when its check is a dtype failure, a missing required field, a
\* duplicate natural key or a payroll identity violation.
C11_ErrorIffCriticalKind ==
    HasExceptions
    => \A k \in 1..Len(Exceptions) :
          /\ Exceptions[k].severity \in {"ERROR", "WARN"}
          /\ Exceptions[k].severity = "ERROR"
                <=> CheckKind(Exceptions[k].check) \in CriticalKinds

\* sales.csv has been validated.
SalesValidated == pc # "validate_sales"

SalesDupMessage == "Duplicates found for keys ['entity', 'invoice_id'] in sales"

\* The exceptions collected so far hold the duplicate-key violation of sales.
SalesDupReported ==
    \E t \in 1..Len(issues) : \E k \in 1..Len(issues[t]) :
        issues[t][k].dataset = "sales" /\ issues[t][k].check = SalesDupMessage

\* Two rows of sales.csv share their (entity, invoice_id).
SalesKeyShared ==
    \E i, j \in 1..Len(sales) :
        /\ i < j
        /\ sales[i].entity = sales[j].entity
        /\ sales[i].invoice_id = sales[j].invoice_id

\* C12: validation of the sales batch reports the duplicate-key violation exactly
\* when two of its rows share (entity, invoice_id); a batch of distinct keys, one
\* of zero rows included, reports none.  A reported one is tagged ERROR and, with
\* fail_on=ERROR, no curated artifact is written.
C12_DupReportedIffKeyShared ==
    SalesValidated
    => /\ SalesDupReported <=> SalesKeyShared
       /\ (SalesDupReported /\ HasExceptions)
            => \E k \in 1..Len(Exceptions) :
                  Exceptions[k].check = SalesDupMessage /\ Exceptions[k].severity = "ERROR"
       /\ (SalesDupReported /\ FailOnIs("ERROR")) => (pc # "done" /\ NoCuratedWritten)

-----------------------------------------------------------------------------
(* Properties of the month filter and of payroll entries (checked under    *)
(* SpecF)                                                                  *)

\* The month filter has run.
Filtered == pc \in {"fx_to_base", "to_fact", "kpi"}

\* A timestamp of the target month: on or after its first day and before the
\* first day of the month after it, which is to say of its year and month.
InTargetMonth(ts) == <<ts[1], ts[2]>> = MonthYM(month)

DatedInTarget(rows) == SelectSeq(rows, LAMBDA r : InTargetMonth(r.date))

PayrollOfTarget == SelectSeq(payroll, LAMBDA r : r.month = month)

\* The ledger entries of one source.
LedgerOf(source) == SelectSeq(Ledger, LAMBDA e : e.source = source)

\* C13: after the filter the sales, expense and inventory frames hold exactly the
\* validated rows dated in the target month, the payroll frame exactly the
\* validated rows whose month string is the target month, and the ledger has
\* one entry for each of these rows and no other.
C13_FilterKeepsTargetMonth ==
    /\ Filtered
        => /\ v_sales[1] = DatedInTarget(sales)
           /\ v_exp[1] = DatedInTarget(expenses)
           /\ v_inv[1] = DatedInTarget(inventory)
           /\ v_pay[1] = PayrollOfTarget
    /\ HasLedger
        => /\ Len(LedgerOf("sales")) = Len(DatedInTarget(sales))
           /\ Len(LedgerOf("expenses")) = Len(DatedInTarget(expenses))
           /\ Len(LedgerOf("inventory")) = Len(DatedInTarget(inventory))
           /\ Len(LedgerOf("payroll")) = Len(PayrollOfTarget)
           /\ \A k \in 1..Len(Ledger) : InTargetMonth(Ledger[k].date)

\* C13: December 2025 filtered from a sale at 23:59 of 31 December and a sale at
\* 00:00 of 1 January 2026: the first is kept, the second is not.
C13_Witness ==
    /\ Filtered
    /\ month = "2025-12"
    /\ sales = <<SaleOn(Dec31Late, "INV-0001"), SaleOn(Jan1, "INV-0002")>>
    /\ v_sales[1] = <<SaleOn(Dec31Late, "INV-0001")>>
    /\ HasLedger

-----------------------------------------------------------------------------
(* Properties of a clean run (checked under Spec)                          *)

\* All five datasets passed validation.
AllPassed == pc \notin ValidationStages /\ issues = <<>>

\* The records of the target month, in the ledger's shape.
TargetRecords ==
    SalesShape(DatedInTarget(sales)) \o ExpensesShape(DatedInTarget(expenses))
    \o PayrollShape(PayrollOfTarget) \o InventoryShape(DatedInTarget(inventory))

\* Every record of the target month in a foreign currency has an FX row of its
\* calendar date and currency.
EveryTargetRecordHasRate ==
    \A i \in 1..Len(TargetRecords) :
        TargetRecords[i].currency # base_currency
        => RatesFor(DateOf(TargetRecords[i].date), TargetRecords[i].currency) # {}

RunEnded == pc \in {"done", "failed"}

\* C14: a run with fail_on=ERROR whose five datasets all pass validation and whose
\* foreign-currency records of the target month all have an FX rate ends in
\* "done" with all five artifacts written, the pass marker of its month as DQ
\* summary, an exceptions log without rows, and a KPI table with the
\* operating_profit column and, for a ledger with entries, at least one row.
C14_CleanRunCompletes ==
    (AllPassed /\ FailOnIs("ERROR") /\ EveryTargetRecordHasRate /\ RunEnded)
    => /\ pc = "done"
       /\ AllFiveWritten
       /\ files.dq_summary = Some(PassMarker(month))
       /\ files.dq_exceptions = Some(<<>>)
       /\ \A k \in 1..Len(files.kpi[1]) : "operating_profit" \in DOMAIN files.kpi[1][k]
       /\ files.fact[1] # <<>> => Len(files.kpi[1]) >= 1

\* The last calendar day of each month of the calendar, at midnight.
LastDayOf(m) ==
    CASE m = "2024-02" -> <<2024, 2, 29, 0>>
      [] m = "2025-02" -> <<2025, 2, 28, 0>>
      [] m = "2025-11" -> <<2025, 11, 30, 0>>
      [] m = "2025-12" -> <<2025, 12, 31, 0>>

\* The ledger entries that carry the document id of a payroll row.
PayrollEntriesOf(p) ==
    SelectSeq(LedgerOf("payroll"),
              LAMBDA e : e.entity = p.entity
                         /\ e.document_id = p.employee_id \o "_" \o p.month)

\* C15: each payroll row handed to the unification has exactly one ledger entry:
\* source payroll, document id employee_id_month, dated the last calendar day
\* of its month (a day of the target month), account 61000001 and the negated
\* net pay as amount; the ledger has no other payroll entry.
C15_PayrollEntryShape ==
    HasLedger
    => /\ Len(LedgerOf("payroll")) = Len(v_pay[1])
       /\ \A i \in 1..Len(v_pay[1]) :
             LET p == v_pay[1][i]
                 es == PayrollEntriesOf(p)
             IN  /\ Len(es) = 1
                 /\ es[1].date = LastDayOf(p.month)
                 /\ InTargetMonth(es[1].date)
                 /\ es[1].account_code = "61000001"
                 /\ es[1].amount = 0 - p.net

\* C15: the ledger of February 2024 with its payroll entry dated the 29th, and
\* the spec's example (net 900.00 gives -900.00).
C15_Witness ==
    /\ HasLedger
    /\ month = "2024-02"
    /\ \E k \in 1..Len(Ledger) :
          /\ Ledger[k].source = "payroll"
          /\ Ledger[k].date = <<2024, 2, 29, 0>>
          /\ Ledger[k].document_id = "EMP-001_2024-02"
          /\ Ledger[k].amount = 0 - 900000
          /\ Ledger[k].amount_base = 0 - 900000

-----------------------------------------------------------------------------
(* Properties of the command line (checked under SpecCli)                  *)

\* The process has exited.
Exited == pc = "exited"

\* The console output has the word.
Mentions(word) ==
    \E l \in 1..Len(stdout) : \E w \in 1..Len(stdout[l]) : stdout[l][w] = word

\* C16: the version command exits with status 0 and prints text with
\* "finance-etl" in it.
C16_VersionCommand ==
    (Exited /\ argv[2] = "version")
    => (exit_code = Some(0) /\ Mentions("finance-etl"))

-----------------------------------------------------------------------------
(* Properties of the FX lookup and of the ledger's size (checked under     *)
(* SpecT)                                                                  *)

\* fx_to_base has returned its lookup.
HasLookup == fx # None

Lookup == fx[1]

\* C17: the lookup fx_to_base returns for a validated FX table holds only rates
\* to the base currency, and no two of its entries have the same calendar date
\* and from_currency.
C17_LookupUniquePerDay ==
    HasLookup
    => /\ \A i \in 1..Len(Lookup) : Lookup[i].to_currency = base_currency
       /\ \A i, j \in 1..Len(Lookup) :
             (i # j) => <<Lookup[i].date, Lookup[i].from_currency>>
                          # <<Lookup[j].date, Lookup[j].from_currency>>

\* Some record handed to the conversion is in a foreign currency, so the join
\* against the lookup is made (transform.py 26).
JoinMade == \E i \in 1..Len(SourceRecords) : SourceRecords[i].currency # base_currency

\* C18: the join of the records against the FX lookup returns one row for each
\* record, and a ledger that is returned has as many entries as there are
\* sales, expense, payroll and inventory rows, as many for a document as there
\* are rows of it.
C18_OneEntryPerSourceRow ==
    Converted
    => /\ JoinMade => Len(MergeLeft(SourceRecords, Lookup)) = Len(SourceRecords)
       /\ HasLedger
            => /\ Len(Ledger) = Len(sales) + Len(expenses) + Len(payroll) + Len(inventory)
               /\ \A i \in 1..Len(SourceRecords) :
                     Cardinality({k \in 1..Len(Ledger) :
                         /\ Ledger[k].source = SourceRecords[i].source
                         /\ Ledger[k].entity = SourceRecords[i].entity
                         /\ Ledger[k].document_id = SourceRecords[i].document_id})
                     = Cardinality({k \in 1..Len(SourceRecords) :
                         /\ SourceRecords[k].source = SourceRecords[i].source
                         /\ SourceRecords[k].entity = SourceRecords[i].entity
                         /\ SourceRecords[k].document_id = SourceRecords[i].document_id})

-----------------------------------------------------------------------------
(* The two outcomes of a validation (checked under Spec)                   *)

\* The table a failed validation appends: every violation of the batch, in the
\* schema's order, each row tagged with the dataset name.
ReportsEvery(table, failure_cases, dataset_name) ==
    /\ Len(table) = Len(failure_cases)
    /\ \A k \in 1..Len(table) :
          /\ table[k].dataset = dataset_name
          /\ table[k].index = failure_cases[k].index
          /\ table[k].column = failure_cases[k].column
          /\ table[k].check = failure_cases[k].check

\* What one validation step may do, given the batch, the violations of its
\* schema, the dataset name, and the value and the issues list it leaves.
TwoOutcomes(df, failure_cases, dataset_name, value, iss) ==
    \/ /\ failure_cases = <<>>
       /\ value = Some(df)
       /\ iss = issues
    \/ /\ failure_cases # <<>>
       /\ value = None
       /\ Len(iss) = Len(issues) + 1
       /\ SubSeq(iss, 1, Len(issues)) = issues
       /\ ReportsEvery(iss[Len(iss)], failure_cases, dataset_name)

\* The step went on to the next statement of run_month without an exception.
NotRaised == error' = NoError /\ pc' # "failed"

ValidationOutcome ==
    /\ pc = "validate_sales"
         => /\ TwoOutcomes(sales, sales_schema(sales), "sales", v_sales', issues')
            /\ NotRaised
    /\ pc = "validate_expenses"
         => /\ TwoOutcomes(expenses, expenses_schema(expenses), "expenses", v_exp', issues')
            /\ NotRaised
    /\ pc = "validate_payroll"
         => /\ TwoOutcomes(payroll, payroll_schema(payroll), "payroll", v_pay', issues')
            /\ NotRaised
    /\ pc = "validate_inventory"
         => /\ TwoOutcomes(inventory, inventory_schema(inventory),
                           "inventory_movements", v_inv', issues')
            /\ NotRaised
    /\ pc = "validate_fx"
         => /\ TwoOutcomes(fx_rates, fx_schema(fx_rates), "fx_rates", v_fx', issues')
            /\ NotRaised

\* C19: a validation either finds no violation, returns the batch and leaves
\* the issues list as it was, or finds some, returns nothing and appends one
\* table holding every violation of the batch, each tagged with the dataset
\* name; it never raises.
C19_ValidationTwoOutcomes == [][ValidationOutcome]_vars

\* All five validations were made; one batch was returned, and another was
\* rejected with a table of more than one violation.
C19_Witness ==
    /\ pc = "dq_report"
    /\ \E k \in 1..Len(issues) : Len(issues[k]) >= 2
    /\ v_sales = None
    /\ v_exp # None

-----------------------------------------------------------------------------
(* The rows of the KPI table (checked under SpecT)                         *)

\* The (entity, month) pairs that occur in the ledger.
LedgerPeriods == {<<Ledger[i].entity, MonthOf(Ledger[i].date)>> : i \in 1..Len(Ledger)}

\* The position of a KPI row in the order of (entity, month).
KpiOrderKey(r) == <<Rank(r.entity)>> \o KpiKey(r)

\* C20: a KPI table with rows has exactly one row for each (entity, month) of
\* the ledger and no other row, in ascending order of (entity, month); an
\* entity and month all of whose entries have an account code the chart does
\* not know has its row too.
C20_KpiRowPerLedgerPeriod ==
    (HasKpi /\ KpiRows # <<>>)
    => /\ {<<KpiRows[k].entity, KpiRows[k].month>> : k \in 1..Len(KpiRows)} = LedgerPeriods
       /\ \A k, l \in 1..Len(KpiRows) :
             (k < l) => TupleLess(KpiOrderKey(KpiRows[k]), KpiOrderKey(KpiRows[l]))

====
